---- MODULE Spec2Model ----
(***************************************************************************)
(* Model of the gas / storage / message fee utilities: config-blob record  *)
(* parsers and writers, fee formulas and the cell-tree statistics walk.    *)
(*                                                                         *)
(* A cell's payload is a sequence of bits; unsigned fields are written     *)
(* big-endian with their real widths (8/16/32/64).  The config blob is a   *)
(* dictionary from signed 32-bit keys to cells; the cell at key 18 holds   *)
(* an inner dictionary from unsigned 32-bit keys to storage records.       *)
(***************************************************************************)
EXTENDS Integers, Sequences, FiniteSets, TLC

VARIABLES config, prev, last, nops, tree, visited, stack, ret

vars == <<config, prev, last, nops, tree, visited, stack, ret>>

(* ------------------------------ bounds -------------------------------- *)

\* number of set* operations applied to one blob in a behaviour
MaxOps == 2

(* ------------------------- program constants -------------------------- *)

TagFlatGas == 209   \* 0xd1
TagGas == 222       \* 0xde
TagStorage == 204   \* 0xcc
TagMsg == 234       \* 0xea

KeyStorage == 18
KeyGas == 21
KeyMsg == 25

W8 == 8
W16 == 16
W32 == 32
W64 == 64

Shr16 == 65536

Workchains == {0, -1}

(* --------------------------- bit primitives --------------------------- *)

RECURSIVE BitLen(_)
\* number of significant bits of a non-negative integer
BitLen(v) == IF v = 0 THEN 0 ELSE 1 + BitLen(v \div 2)

\* big-endian, exactly n bits (the caller has checked that v fits): the bit of
\* weight 2^(n-i) is zero wherever that weight exceeds v
NatToBits(v, n) ==
  LET len == BitLen(v)
  IN [i \in 1..n |-> IF n - i >= len THEN 0 ELSE (v \div 2^(n - i)) % 2]

RECURSIVE BitsToNat(_)
\* big-endian value of a bit string, high half times 2^(low length) plus low half
BitsToNat(s) ==
  IF Len(s) = 0 THEN 0
  ELSE IF Len(s) = 1 THEN s[1]
  ELSE LET h == Len(s) \div 2
           hi == BitsToNat(SubSeq(s, 1, h))
           lo == BitsToNat(SubSeq(s, h + 1, Len(s)))
       IN IF hi = 0 THEN lo ELSE hi * 2^(Len(s) - h) + lo

\* Builder.storeUint(v, n) throws unless 0 <= v < 2^n
FitsUint(v, n) == v >= 0 /\ BitLen(v) <= n

\* Builder.storeUint(v, n): the n bits appended
storeUint(v, n) == NatToBits(v, n)

\* Slice.loadUint(n) / loadUintBig(n) / preloadUintBig(n) throw when fewer than n bits remain
CanLoad(s, n) == Len(s) >= n

\* value of the next n bits of slice s
loadUint(s, n) == BitsToNat(SubSeq(s, 1, n))

\* Slice.skip(n): the slice after n bits (throws when fewer than n bits remain)
skip(s, n) == SubSeq(s, n + 1, Len(s))

(* ------------------------------ results ------------------------------- *)

Ok(v) == [ok |-> TRUE, val |-> v]
Throw(e) == [ok |-> FALSE, val |-> e]

\* JavaScript's undefined
Undefined == "undefined"

\* a cell holding raw bits
RawCell(b) == [bits |-> b, dict |-> <<>>]
\* a cell holding a directly stored dictionary: key -> bits of the value
DictCell(m) == [bits |-> <<>>, dict |-> m]

\* Dictionary.get(k)
Has(cfg, k) == k \in DOMAIN cfg

\* Dictionary.set(k, v) on a copy of the dictionary
DictSet(d, k, v) == [x \in (DOMAIN d) \cup {k} |-> IF x = k THEN v ELSE d[x]]

(* ----------------------------- gas prices ----------------------------- *)

GasRecordBits == W8 + W64 + W64 + W8 + W64

\* getGasPrices(configRaw, workchain)
getGasPrices(cfg, w) ==
  IF ~Has(cfg, KeyGas + w) THEN Throw("TypeError: undefined.beginParse")
  ELSE LET ds0 == cfg[KeyGas + w].bits IN
    IF ~CanLoad(ds0, W8) THEN Throw("out of bounds")
    ELSE IF loadUint(ds0, W8) # TagFlatGas THEN Throw("Invalid flat gas prices tag!")
    ELSE LET ds1 == skip(ds0, W8) IN
      IF ~CanLoad(ds1, W64 + W64) THEN Throw("out of bounds")
      ELSE LET flat_gas_limit == loadUint(ds1, W64)
               ds2 == skip(ds1, W64)
               flat_gas_price == loadUint(ds2, W64)
               ds3 == skip(ds2, W64) IN
        IF ~CanLoad(ds3, W8) THEN Throw("out of bounds")
        ELSE IF loadUint(ds3, W8) # TagGas THEN Throw("Invalid gas prices tag!")
        ELSE LET ds4 == skip(ds3, W8) IN
          IF ~CanLoad(ds4, W64) THEN Throw("out of bounds")
          ELSE Ok([flat_gas_limit |-> flat_gas_limit,
                   flat_gas_price |-> flat_gas_price,
                   gas_price |-> loadUint(ds4, W64)])

\* faulty variant of newGasCell: the two flat fields are written in the wrong order
newGasCell_Swapped(prices, tail) ==
  RawCell(storeUint(TagFlatGas, W8)
          \o storeUint(prices.flat_gas_price, W64)
          \o storeUint(prices.flat_gas_limit, W64)
          \o storeUint(TagGas, W8)
          \o storeUint(prices.gas_price, W64)
          \o tail)

\* faulty variant of newGasCell: what followed the old fields is not appended
newGasCell_NoTail(prices, tail) ==
  RawCell(storeUint(TagFlatGas, W8)
          \o storeUint(prices.flat_gas_limit, W64)
          \o storeUint(prices.flat_gas_price, W64)
          \o storeUint(TagGas, W8)
          \o storeUint(prices.gas_price, W64))

\* the record setGasPrice builds: new fields followed by the old tail
newGasCell(prices, tail) ==
  RawCell(storeUint(TagFlatGas, W8)
          \o storeUint(prices.flat_gas_limit, W64)
          \o storeUint(prices.flat_gas_price, W64)
          \o storeUint(TagGas, W8)
          \o storeUint(prices.gas_price, W64)
          \o tail)

\* setGasPrice(configRaw, prices, workchain): the new blob, or the error thrown
setGasPrice(cfg, prices, w) ==
  LET idx == KeyGas + w IN
  IF ~Has(cfg, idx) THEN Throw("TypeError: undefined.beginParse")
  ELSE IF ~CanLoad(cfg[idx].bits, GasRecordBits) THEN Throw("out of bounds")
  ELSE IF ~(FitsUint(prices.flat_gas_limit, W64) /\ FitsUint(prices.flat_gas_price, W64)
            /\ FitsUint(prices.gas_price, W64)) THEN Throw("value is out of range")
  ELSE Ok(DictSet(cfg, idx, newGasCell(prices, skip(cfg[idx].bits, GasRecordBits))))

(* --------------------------- storage prices --------------------------- *)

StorageRecordBits == W8 + W32 + W64 + W64 + W64 + W64

\* storageValue.serialize throws when a field does not fit its width
storageValueFits(src) ==
  /\ FitsUint(src.utime_sice, W32)
  /\ FitsUint(src.bit_price_ps, W64)
  /\ FitsUint(src.cell_price_ps, W64)
  /\ FitsUint(src.mc_bit_price_ps, W64)
  /\ FitsUint(src.mc_cell_price_ps, W64)

\* storageValue.serialize(src, builder): the bits written
storageValueSerialize(src) ==
  storeUint(TagStorage, W8)
  \o storeUint(src.utime_sice, W32)
  \o storeUint(src.bit_price_ps, W64)
  \o storeUint(src.cell_price_ps, W64)
  \o storeUint(src.mc_bit_price_ps, W64)
  \o storeUint(src.mc_cell_price_ps, W64)

\* storageValue.parse(src): the tag byte is skipped, not compared
storageValueParse(src) ==
  IF ~CanLoad(src, StorageRecordBits) THEN Throw("out of bounds")
  ELSE LET s1 == skip(src, W8)
           s2 == skip(s1, W32)
           s3 == skip(s2, W64)
           s4 == skip(s3, W64)
           s5 == skip(s4, W64) IN
       Ok([utime_sice |-> loadUint(s1, W32),
           bit_price_ps |-> loadUint(s2, W64),
           cell_price_ps |-> loadUint(s3, W64),
           mc_bit_price_ps |-> loadUint(s4, W64),
           mc_cell_price_ps |-> loadUint(s5, W64)])

\* Dictionary.loadDirect(Keys.Uint(32), storageValue, config.get(18)!):
\* an absent cell loads as the empty dictionary; every entry is parsed
loadStorageData(cfg) ==
  IF ~Has(cfg, KeyStorage) THEN Ok(<<>>)
  ELSE LET m == cfg[KeyStorage].dict IN
    IF \E k \in DOMAIN m : ~storageValueParse(m[k]).ok THEN Throw("out of bounds")
    ELSE Ok([k \in DOMAIN m |-> storageValueParse(m[k]).val])

RECURSIVE SortedKeys(_)
\* keys of a parsed dictionary in iteration order: ascending unsigned key
SortedKeys(S) ==
  IF S = {} THEN <<>>
  ELSE LET mn == CHOOSE k \in S : \A j \in S : k <= j IN <<mn>> \o SortedKeys(S \ {mn})

\* Dictionary.values() of a freshly loaded dictionary
values(d) == [i \in 1..Cardinality(DOMAIN d) |-> d[SortedKeys(DOMAIN d)[i]]]

\* getStoragePrices(configRaw): values[values.length - 1]
getStoragePrices(cfg) ==
  LET storageData == loadStorageData(cfg) IN
  IF ~storageData.ok THEN storageData
  ELSE LET vals == values(storageData.val) IN
    IF Len(vals) = 0 THEN Ok(Undefined) ELSE Ok(vals[Len(vals)])

\* the key setStoragePrices writes: storageData.values().length - 1
storageSetKey(d) == Len(values(d)) - 1

\* setStoragePrices(configRaw, prices): the new blob, or the error thrown
setStoragePrices(cfg, prices) ==
  LET storageData == loadStorageData(cfg) IN
  IF ~storageData.ok THEN storageData
  ELSE LET k == storageSetKey(storageData.val)
           d == DictSet(storageData.val, k, prices) IN
    IF ~FitsUint(k, W32) THEN Throw("Key is negative")
    ELSE IF ~storageValueFits(prices) THEN Throw("value is out of range")
    ELSE Ok(DictSet(cfg, KeyStorage, DictCell([x \in DOMAIN d |-> storageValueSerialize(d[x])])))

(* --------------------------- message prices --------------------------- *)

MsgRecordBits == W8 + W64 + W64 + W64 + W32 + W16 + W16

\* configParseMsgPrices(sc)
configParseMsgPrices(sc) ==
  IF ~CanLoad(sc, W8) THEN Throw("out of bounds")
  ELSE IF loadUint(sc, W8) # TagMsg THEN Throw("Invalid message prices magic number!")
  ELSE IF ~CanLoad(sc, MsgRecordBits) THEN Throw("out of bounds")
  ELSE LET s1 == skip(sc, W8)
           s2 == skip(s1, W64)
           s3 == skip(s2, W64)
           s4 == skip(s3, W64)
           s5 == skip(s4, W32)
           s6 == skip(s5, W16) IN
       Ok([lumpPrice |-> loadUint(s1, W64),
           bitPrice |-> loadUint(s2, W64),
           cellPrice |-> loadUint(s3, W64),
           ihrPriceFactor |-> loadUint(s4, W32),
           firstFrac |-> loadUint(s5, W16),
           nextFrac |-> loadUint(s6, W16)])

\* the storeUint calls of setMsgPrices throw when a field does not fit its width
msgPricesFit(prices) ==
  /\ FitsUint(prices.lumpPrice, W64)
  /\ FitsUint(prices.bitPrice, W64)
  /\ FitsUint(prices.cellPrice, W64)
  /\ FitsUint(prices.ihrPriceFactor, W32)
  /\ FitsUint(prices.firstFrac, W16)
  /\ FitsUint(prices.nextFrac, W16)

\* faulty variant of msgPriceCell: the two fractions are written in the wrong order
msgPriceCell_SwappedFrac(prices) ==
  RawCell(storeUint(TagMsg, W8)
          \o storeUint(prices.lumpPrice, W64)
          \o storeUint(prices.bitPrice, W64)
          \o storeUint(prices.cellPrice, W64)
          \o storeUint(prices.ihrPriceFactor, W32)
          \o storeUint(prices.nextFrac, W16)
          \o storeUint(prices.firstFrac, W16))

\* the cell setMsgPrices builds
msgPriceCell(prices) ==
  RawCell(storeUint(TagMsg, W8)
          \o storeUint(prices.lumpPrice, W64)
          \o storeUint(prices.bitPrice, W64)
          \o storeUint(prices.cellPrice, W64)
          \o storeUint(prices.ihrPriceFactor, W32)
          \o storeUint(prices.firstFrac, W16)
          \o storeUint(prices.nextFrac, W16))

\* setMsgPrices(configRaw, prices, workchain): the new blob, or the error thrown
setMsgPrices(cfg, prices, w) ==
  IF ~msgPricesFit(prices) THEN Throw("value is out of range")
  ELSE Ok(DictSet(cfg, KeyMsg + w, msgPriceCell(prices)))

\* getMsgPrices(configRaw, workchain)
getMsgPrices(cfg, w) ==
  IF ~Has(cfg, KeyMsg + w) THEN Throw("No prices defined in config")
  ELSE configParseMsgPrices(cfg[KeyMsg + w].bits)

(* ------------------------- config blob inputs ------------------------- *)

GasP1 == [flat_gas_limit |-> 100, flat_gas_price |-> 1000000, gas_price |-> 65536000]
GasP2 == [flat_gas_limit |-> 0, flat_gas_price |-> 400000, gas_price |-> 26214400]
GasInputs == {GasP1, GasP2}

StorageP1 == [utime_sice |-> 0, bit_price_ps |-> 1, cell_price_ps |-> 500,
              mc_bit_price_ps |-> 1000, mc_cell_price_ps |-> 500000]
StorageP2 == [utime_sice |-> 1700000000, bit_price_ps |-> 2, cell_price_ps |-> 600,
              mc_bit_price_ps |-> 2000, mc_cell_price_ps |-> 600000]
StorageP3 == [utime_sice |-> 1710000000, bit_price_ps |-> 3, cell_price_ps |-> 700,
              mc_bit_price_ps |-> 3000, mc_cell_price_ps |-> 700000]
StorageInputs == {StorageP3, StorageP1}

MsgP1 == [lumpPrice |-> 400000, bitPrice |-> 26214400, cellPrice |-> 2000000000,
          ihrPriceFactor |-> 98304, firstFrac |-> 21845, nextFrac |-> 21846]
MsgP2 == [lumpPrice |-> 10000000, bitPrice |-> 655360000, cellPrice |-> 2147483647,
          ihrPriceFactor |-> 0, firstFrac |-> 65535, nextFrac |-> 0]
\* firstFrac does not fit 16 bits: storeUint throws
MsgBad == [lumpPrice |-> 1, bitPrice |-> 2, cellPrice |-> 3,
           ihrPriceFactor |-> 4, firstFrac |-> 65536, nextFrac |-> 5]
MsgInputs == {MsgP1, MsgP2, MsgBad}

\* what follows gas_price in a gas_prices_ext record
GasTail == storeUint(1000000, W64) \o <<1, 0, 1>>

\* a gas record with the given tag bytes
gasCellRaw(tag1, tag2, p, tail) ==
  RawCell(storeUint(tag1, W8) \o storeUint(p.flat_gas_limit, W64)
          \o storeUint(p.flat_gas_price, W64) \o storeUint(tag2, W8)
          \o storeUint(p.gas_price, W64) \o tail)

\* a storage record with the given tag byte
storageEntryRaw(tag, p) == storeUint(tag, W8) \o SubSeq(storageValueSerialize(p), W8 + 1, StorageRecordBits)

\* a message price record with the given tag byte
msgCellRaw(tag, p) == RawCell(storeUint(tag, W8) \o SubSeq(msgPriceCell(p).bits, W8 + 1, MsgRecordBits))

Absent == RawCell(<<0>>)

\* records found at key 21 (basechain gas)
Gas0Options ==
  { Absent,
    gasCellRaw(TagFlatGas, TagGas, GasP2, GasTail),
    gasCellRaw(TagGas, TagGas, GasP2, GasTail),
    gasCellRaw(TagFlatGas, TagFlatGas, GasP2, <<>>),
    RawCell(SubSeq(gasCellRaw(TagFlatGas, TagGas, GasP2, <<>>).bits, 1, W8 + W64)) }

\* records found at key 20 (masterchain gas)
GasMcOptions == { gasCellRaw(TagFlatGas, TagGas, GasP1, <<>>) }

\* inner dictionaries found at key 18
StorageOptions ==
  { Absent,
    DictCell((0 :> storageValueSerialize(StorageP1))),
    DictCell((0 :> storageValueSerialize(StorageP1)) @@ (1 :> storageValueSerialize(StorageP2))),
    DictCell((5 :> storageValueSerialize(StorageP1)) @@ (10 :> storageValueSerialize(StorageP2))),
    DictCell((0 :> storageValueSerialize(StorageP1)) @@ (1 :> storageEntryRaw(0, StorageP2))) }

\* records found at key 25 (basechain message prices)
Msg0Options == { Absent, msgPriceCell(MsgP2), msgCellRaw(TagStorage, MsgP2) }

\* records found at key 24 (masterchain message prices)
MsgMcOptions == { msgPriceCell(MsgP1) }

\* the blob with the given cells, Absent ones left out
Blob(g0, gmc, st, m0, mmc) ==
  LET all == (KeyGas :> g0) @@ (KeyGas - 1 :> gmc) @@ (KeyStorage :> st)
             @@ (KeyMsg :> m0) @@ (KeyMsg - 1 :> mmc)
      present == {k \in DOMAIN all : all[k] # Absent}
  IN [k \in present |-> all[k]]

NoOp == [op |-> "none", w |-> 0, arg |-> "none", ok |-> TRUE, out |-> "none"]
NoTree == <<>>
NoStats == [bits |-> 0, cells |-> 0]

(* ------------------------ config blob operations ---------------------- *)

\* the well-formed record of each kind
Gas0Default == gasCellRaw(TagFlatGas, TagGas, GasP2, GasTail)
StorageDefault == DictCell((0 :> storageValueSerialize(StorageP1)) @@ (1 :> storageValueSerialize(StorageP2)))
Msg0Default == msgPriceCell(MsgP2)

\* how many of the three basechain records differ from the well-formed one
Varied(g0, st, m0) ==
  (IF g0 = Gas0Default THEN 0 ELSE 1) + (IF st = StorageDefault THEN 0 ELSE 1)
  + (IF m0 = Msg0Default THEN 0 ELSE 1)

\* a blob with at most one absent, malformed or differently keyed record
Init ==
  /\ \E g0 \in Gas0Options, gmc \in GasMcOptions, st \in StorageOptions,
        m0 \in Msg0Options, mmc \in MsgMcOptions :
        /\ Varied(g0, st, m0) <= 1
        /\ config = Blob(g0, gmc, st, m0, mmc)
  /\ prev = config
  /\ last = NoOp
  /\ nops = 0
  /\ tree = NoTree
  /\ visited = <<>>
  /\ stack = <<>>
  /\ ret = NoStats

\* the blob the caller holds after a set* call: the returned one, or the old
\* one when the call threw
Installed(cfg, r) == IF r.ok THEN r.val ELSE cfg

\* the record of a set* call
Wrote(op, w, p, r) ==
  [op |-> op, w |-> w, arg |-> p, ok |-> r.ok, out |-> IF r.ok THEN "blob" ELSE r.val]

\* the record of a get* call
Got(op, w, r) == [op |-> op, w |-> w, arg |-> "none", ok |-> r.ok, out |-> r.val]

\* prev records the blob each operation was given
SetGasPrice ==
  /\ nops < MaxOps
  /\ \E p \in GasInputs, w \in Workchains :
       LET r == setGasPrice(config, p, w)
       IN config' = Installed(config, r) /\ last' = Wrote("setGasPrice", w, p, r)
  /\ nops' = nops + 1
  /\ prev' = config
  /\ UNCHANGED <<tree, visited, stack, ret>>

SetStoragePrices ==
  /\ nops < MaxOps
  /\ \E p \in StorageInputs :
       LET r == setStoragePrices(config, p)
       IN config' = Installed(config, r) /\ last' = Wrote("setStoragePrices", 0, p, r)
  /\ nops' = nops + 1
  /\ prev' = config
  /\ UNCHANGED <<tree, visited, stack, ret>>

SetMsgPrices ==
  /\ nops < MaxOps
  /\ \E p \in MsgInputs, w \in Workchains :
       LET r == setMsgPrices(config, p, w)
       IN config' = Installed(config, r) /\ last' = Wrote("setMsgPrices", w, p, r)
  /\ nops' = nops + 1
  /\ prev' = config
  /\ UNCHANGED <<tree, visited, stack, ret>>

GetGasPrices ==
  /\ \E w \in Workchains : last' = Got("getGasPrices", w, getGasPrices(config, w))
  /\ prev' = config
  /\ UNCHANGED <<config, nops, tree, visited, stack, ret>>

GetStoragePrices ==
  /\ last' = Got("getStoragePrices", 0, getStoragePrices(config))
  /\ prev' = config
  /\ UNCHANGED <<config, nops, tree, visited, stack, ret>>

GetMsgPrices ==
  /\ \E w \in Workchains : last' = Got("getMsgPrices", w, getMsgPrices(config, w))
  /\ prev' = config
  /\ UNCHANGED <<config, nops, tree, visited, stack, ret>>

Next ==
  \/ SetGasPrice
  \/ SetStoragePrices
  \/ SetMsgPrices
  \/ GetGasPrices
  \/ GetStoragePrices
  \/ GetMsgPrices

Spec == Init /\ [][Next]_vars

(* ----------------------- claims on the config blob -------------------- *)

\* the bits of the record at key k of blob cfg
RecordBits(cfg, k) == cfg[k].bits

\* the byte at bit offset off of bit string b
ByteAt(b, off) == BitsToNat(SubSeq(b, off + 1, off + W8))

\* the highest key of a non-empty inner dictionary
MaxKey(m) == CHOOSE k \in DOMAIN m : \A j \in DOMAIN m : j <= k

\* C1 (as claimed): after setStoragePrices(blob, p) succeeds on a blob whose
\* key-18 dictionary is non-empty (any key set), getStoragePrices of the
\* returned blob is p, field by field.
C1_StorageRoundTrip ==
  (last.op = "setStoragePrices" /\ last.ok) =>
    LET r == getStoragePrices(config) IN r.ok /\ r.val = last.arg

\* C2: after setGasPrice(blob, p, w) succeeds, getGasPrices of the returned
\* blob at the same workchain is p (all three fields equal).
C2_GasRoundTrip ==
  (last.op = "setGasPrice" /\ last.ok) =>
    LET r == getGasPrices(config, last.w) IN r.ok /\ r.val = last.arg

\* C2 witness: a valid p was written over a well-formed record that has a tail
C2_Witness ==
  /\ last.op = "setGasPrice" /\ last.ok /\ last.w = 0 /\ last.arg = GasP1
  /\ getGasPrices(prev, 0).ok
  /\ Len(RecordBits(prev, KeyGas)) > GasRecordBits

\* C3: after setMsgPrices(blob, p, w) succeeds for a valid p, getMsgPrices of
\* the returned blob at the same workchain is p in all six fields, whether or
\* not key 25 + w existed beforehand.
C3_MsgRoundTrip ==
  (last.op = "setMsgPrices" /\ msgPricesFit(last.arg)) =>
    /\ last.ok
    /\ LET r == getMsgPrices(config, last.w) IN r.ok /\ r.val = last.arg

\* C3 witness: the key was absent from the blob the record was written to
C3_Witness ==
  /\ last.op = "setMsgPrices" /\ last.ok /\ last.w = 0
  /\ ~Has(prev, KeyMsg)
  /\ getMsgPrices(config, 0).val = MsgP1

\* C8 (as claimed): every record parser rejects a wrong tag byte: reading a
\* gas record whose first tag is not 0xd1 or whose second is not 0xde, a
\* storage dictionary holding a record whose tag is not 0xcc, or a message
\* record whose tag is not 0xea raises an error and returns no record.
C8_WrongTagRejected ==
  /\ (/\ last.op = "getGasPrices"
      /\ Has(config, KeyGas + last.w)
      /\ Len(RecordBits(config, KeyGas + last.w)) >= GasRecordBits
      /\ \/ ByteAt(RecordBits(config, KeyGas + last.w), 0) # TagFlatGas
         \/ ByteAt(RecordBits(config, KeyGas + last.w), W8 + W64 + W64) # TagGas)
     => ~last.ok
  /\ (/\ last.op = "getStoragePrices"
      /\ Has(config, KeyStorage)
      /\ \E k \in DOMAIN config[KeyStorage].dict :
            /\ Len(config[KeyStorage].dict[k]) >= StorageRecordBits
            /\ ByteAt(config[KeyStorage].dict[k], 0) # TagStorage)
     => ~last.ok
  /\ (/\ last.op = "getMsgPrices"
      /\ Has(config, KeyMsg + last.w)
      /\ Len(RecordBits(config, KeyMsg + last.w)) >= MsgRecordBits
      /\ ByteAt(RecordBits(config, KeyMsg + last.w), 0) # TagMsg)
     => ~last.ok

\* C9 (as claimed): a read whose dictionary key (21 + w, 18, 25 + w) is absent
\* from the blob raises an error and returns no record, default or undefined.
C9_MissingKeyRejected ==
  /\ (last.op = "getGasPrices" /\ ~Has(config, KeyGas + last.w)) => ~last.ok
  /\ (last.op = "getStoragePrices" /\ ~Has(config, KeyStorage)) => ~last.ok
  /\ (last.op = "getMsgPrices" /\ ~Has(config, KeyMsg + last.w)) => ~last.ok

\* C10 (as claimed): setStoragePrices(blob, p) replaces the entry at the
\* highest key of the key-18 dictionary with p and changes nothing else: the
\* inner key set is unchanged, every other inner entry is unchanged, and
\* every other key of the outer dictionary keeps its value.
C10_StorageFrame ==
  (last.op = "setStoragePrices" /\ last.ok) =>
    LET old == prev[KeyStorage].dict
        new == config[KeyStorage].dict
        hk == MaxKey(old)
    IN /\ DOMAIN new = DOMAIN old
       /\ storageValueParse(new[hk]).val = last.arg
       /\ \A k \in DOMAIN old \ {hk} : new[k] = old[k]
       /\ DOMAIN config = DOMAIN prev
       /\ \A k \in DOMAIN prev \ {KeyStorage} : config[k] = prev[k]

(* ------------------------------ fee formulas -------------------------- *)

\* bigint division: the quotient is truncated toward zero
tdiv(a, b) == IF a >= 0 THEN a \div b ELSE -((-a) \div b)

\* bigint remainder: has the sign of the dividend
trem(a, b) == a - b * tdiv(a, b)

\* bigint >> n: floor division by 2^n
shr(a, n) == a \div (2^n)

\* faulty variant of shr16ceil: the remainder is dropped (plain >> 16)
shr16ceil_Truncating(src) == tdiv(src, Shr16)

\* shr16ceil(src)
shr16ceil(src) ==
  LET rem == trem(src, Shr16)
      res == tdiv(src, Shr16)
  IN IF rem # 0 THEN res + 1 ELSE res

\* calcStorageFee(prices, stats, duration)
calcStorageFee(prices, stats, duration) ==
  shr16ceil((stats.bits * prices.bit_price_ps + stats.cells * prices.cell_price_ps) * duration)

\* faulty variant of computeGasFee: the variable part is rounded up like the other fees
computeGasFee_RoundedUp(prices, gas) ==
  IF gas <= prices.flat_gas_limit THEN prices.flat_gas_price
  ELSE prices.flat_gas_price + shr16ceil(prices.gas_price * (gas - prices.flat_gas_limit))

\* computeGasFee(prices, gas)
computeGasFee(prices, gas) ==
  IF gas <= prices.flat_gas_limit THEN prices.flat_gas_price
  ELSE prices.flat_gas_price + tdiv(prices.gas_price * (gas - prices.flat_gas_limit), Shr16)

\* computeFwdFees(msgPrices, cells, bits)
computeFwdFees(msgPrices, cells, bits) ==
  msgPrices.lumpPrice + shr16ceil(msgPrices.bitPrice * bits + msgPrices.cellPrice * cells)

\* faulty variant of computeFwdFeesVerbose: the share is taken with nextFrac
computeFwdFeesVerbose_NextFrac(msgPrices, cells, bits) ==
  LET fees == computeFwdFees(msgPrices, cells, bits)
      res == shr(fees * msgPrices.nextFrac, W16)
  IN [total |-> fees, res |-> res, remaining |-> fees - res]

\* computeFwdFeesVerbose(msgPrices, cells, bits)
computeFwdFeesVerbose(msgPrices, cells, bits) ==
  LET fees == computeFwdFees(msgPrices, cells, bits)
      res == shr(fees * msgPrices.firstFrac, W16)
  IN [total |-> fees, res |-> res, remaining |-> fees - res]

(* ----------------------------- fee inputs ----------------------------- *)

\* gas, cell counts and durations range over FeeSteps multiples of 65536
FeeSteps == 3

Amounts == {a * Shr16 + b : a \in 0..FeeSteps, b \in {0, 1, Shr16 - 1}}

FeeGasPrices ==
  [flat_gas_limit : {0, 100}, flat_gas_price : {0, 1000000}, gas_price : {0, 1, 1000, 4096}]

FeeStoragePrices ==
  [utime_sice : {0}, bit_price_ps : {0, 1, 64}, cell_price_ps : {0, 500},
   mc_bit_price_ps : {1000}, mc_cell_price_ps : {500000}]

FeeStats == [bits : {0, 1000, 1024}, cells : (0..FeeSteps) \cup {5}]

FeeDurations == {0, 1, 3600}

FeeMsgPrices ==
  [lumpPrice : {0, 1000}, bitPrice : {0, 100, Shr16}, cellPrice : {0, 70000, 100 * Shr16},
   ihrPriceFactor : {98304}, firstFrac : {0, 21845, Shr16 - 1}, nextFrac : {21846}]

FeeBits == {0, 1, 1023}

InitFee ==
  /\ config = <<>>
  /\ prev = <<>>
  /\ last = NoOp
  /\ nops = 0
  /\ tree = NoTree
  /\ visited = <<>>
  /\ stack = <<>>
  /\ ret = NoStats

\* the record of a fee computation
Computed(op, arg, out) == [op |-> op, w |-> 0, arg |-> arg, ok |-> TRUE, out |-> out]

ComputeGasFee ==
  /\ \E p \in FeeGasPrices, a \in Amounts : \E g \in {a, p.flat_gas_limit + a} :
       last' = Computed("computeGasFee", [prices |-> p, gas |-> g], computeGasFee(p, g))
  /\ UNCHANGED <<config, prev, nops, tree, visited, stack, ret>>

CalcStorageFee ==
  /\ \E p \in FeeStoragePrices, st \in FeeStats, d \in FeeDurations :
       last' = Computed("calcStorageFee", [prices |-> p, stats |-> st, duration |-> d],
                        calcStorageFee(p, st, d))
  /\ UNCHANGED <<config, prev, nops, tree, visited, stack, ret>>

ComputeFwdFeesVerbose ==
  /\ \E p \in FeeMsgPrices, c \in 0..FeeSteps, b \in FeeBits :
       last' = Computed("computeFwdFeesVerbose", [prices |-> p, cells |-> c, bits |-> b],
                        computeFwdFeesVerbose(p, c, b))
  /\ UNCHANGED <<config, prev, nops, tree, visited, stack, ret>>

NextFee ==
  \/ ComputeGasFee
  \/ CalcStorageFee
  \/ ComputeFwdFeesVerbose

SpecFee == InitFee /\ [][NextFee]_vars

(* ------------------------ claims on the fee formulas ------------------ *)

\* q is the floor of x / 65536
IsFloor16(q, x) == q * Shr16 <= x /\ x < (q + 1) * Shr16

\* q is the ceiling of x / 65536
IsCeil16(q, x) == (q - 1) * Shr16 < x /\ x <= q * Shr16

\* C4: computeGasFee returns flat_gas_price when gas <= flat_gas_limit and
\* otherwise flat_gas_price plus the floor of gas_price * (gas - flat_gas_limit)
\* / 65536; at gas = flat_gas_limit it is flat_gas_price and at
\* gas = flat_gas_limit + 65536 it is flat_gas_price + gas_price.
C4_GasFee ==
  last.op = "computeGasFee" =>
    LET p == last.arg.prices
        gas == last.arg.gas
        fee == last.out
    IN /\ gas <= p.flat_gas_limit => fee = p.flat_gas_price
       /\ gas > p.flat_gas_limit =>
            IsFloor16(fee - p.flat_gas_price, p.gas_price * (gas - p.flat_gas_limit))
       /\ gas = p.flat_gas_limit + Shr16 => fee = p.flat_gas_price + p.gas_price

\* C4 witness: above the flat limit with a product that is not a multiple of 65536
C4_Witness ==
  /\ last.op = "computeGasFee"
  /\ last.arg.gas > last.arg.prices.flat_gas_limit
  /\ (last.arg.prices.gas_price * (last.arg.gas - last.arg.prices.flat_gas_limit)) % Shr16 # 0
  /\ last.out > last.arg.prices.flat_gas_price

\* C5: calcStorageFee is the ceiling of (bits * bit_price_ps + cells *
\* cell_price_ps) * duration / 65536: 0 when duration is 0, raw / 65536 when
\* raw is a multiple of 65536, floor(raw / 65536) + 1 otherwise.
C5_StorageFee ==
  last.op = "calcStorageFee" =>
    LET p == last.arg.prices
        st == last.arg.stats
        raw == (st.bits * p.bit_price_ps + st.cells * p.cell_price_ps) * last.arg.duration
        fee == last.out
    IN /\ IsCeil16(fee, raw)
       /\ last.arg.duration = 0 => fee = 0
       /\ raw % Shr16 = 0 => fee * Shr16 = raw
       /\ raw % Shr16 # 0 => IsFloor16(fee - 1, raw)

\* C5 witness: the spec's example, raw = 12,600,000 and fee 193
C5_Witness ==
  /\ last.op = "calcStorageFee"
  /\ last.arg.stats = [bits |-> 1000, cells |-> 5]
  /\ last.arg.prices.bit_price_ps = 1 /\ last.arg.prices.cell_price_ps = 500
  /\ last.arg.duration = 3600
  /\ last.out = 193

\* C6: computeFwdFeesVerbose returns total = lumpPrice + ceil((bitPrice * bits
\* + cellPrice * cells) / 65536), res = floor(total * firstFrac / 65536) and
\* remaining = total - res, so res + remaining = total and 0 <= res <= total.
C6_FwdFeesVerbose ==
  last.op = "computeFwdFeesVerbose" =>
    LET p == last.arg.prices
        o == last.out
    IN /\ IsCeil16(o.total - p.lumpPrice, p.bitPrice * last.arg.bits + p.cellPrice * last.arg.cells)
       /\ IsFloor16(o.res, o.total * p.firstFrac)
       /\ o.remaining = o.total - o.res
       /\ o.res + o.remaining = o.total
       /\ 0 <= o.res /\ o.res <= o.total

\* C6 witness: a fee that splits into a non-zero share and a non-zero remainder
C6_Witness ==
  /\ last.op = "computeFwdFeesVerbose"
  /\ last.arg.cells > 0 /\ last.arg.bits > 0
  /\ last.out.res > 0 /\ last.out.remaining > 0
  /\ (last.out.total * last.arg.prices.firstFrac) % Shr16 # 0

(* --------------------------- collectCellStats ------------------------- *)

\* cells of a tree are named by their content hash 1..MaxCells
MaxCells == 3
\* child references per cell
MaxRefs == 2

Hashes == 1..MaxCells

\* bit length of the payload of cell h: distinct decimal weights, so a total
\* tells which cells were counted and how often
cellBits(h) == 10^(h - 1)

\* sequences over S of length at most n
RECURSIVE SeqsUpTo(_, _)
SeqsUpTo(S, n) ==
  IF n = 0 THEN {<<>>}
  ELSE LET shorter == SeqsUpTo(S, n - 1)
       IN shorter \cup {Append(q, x) : q \in {t \in shorter : Len(t) = n - 1}, x \in S}

\* acyclic trees: a cell refers only to cells of greater hash; the same child
\* may be referenced from several places, in any order
Trees ==
  {t \in [Hashes -> [bits : {0}, refs : SeqsUpTo(Hashes, MaxRefs)]] :
     \A h \in Hashes : \A i \in 1..Len(t[h].refs) : t[h].refs[i] > h}

\* new StorageStats(bits, cells)
StorageStats(bits, cells) == [bits |-> bits, cells |-> cells]

\* faulty variant of includes: the visited test never finds the hash
includes_Never(v, hash) == FALSE

\* visited.includes(hash)
includes(v, hash) == \E i \in 1..Len(v) : v[i] = hash

\* faulty variant of enter: skipRoot clears the bits only, the cell is counted
enter_CountsSkippedRoot(cell, skipRoot) ==
  [cell |-> cell,
   bits |-> IF skipRoot THEN 0 ELSE cellBits(cell),
   cells |-> 1,
   i |-> 1]

\* the locals of a call of collectCellStats(cell, visited, skipRoot) that has
\* passed the visited test: bits, cells and the position in cell.refs
enter(cell, skipRoot) ==
  [cell |-> cell,
   bits |-> IF skipRoot THEN 0 ELSE cellBits(cell),
   cells |-> IF skipRoot THEN 0 ELSE 1,
   i |-> 1]

\* cells += r.cells; bits += r.bits; and on to the next ref
accumulate(f, r) == [f EXCEPT !.bits = f.bits + r.bits, !.cells = f.cells + r.cells, !.i = f.i + 1]

Top == stack[Len(stack)]
Pop == SubSeq(stack, 1, Len(stack) - 1)
Running(arg) == [op |-> "collectCellStats", w |-> 0, arg |-> arg, ok |-> TRUE, out |-> "running"]
Finished(arg) == [op |-> "collectCellStats", w |-> 0, arg |-> arg, ok |-> TRUE, out |-> "done"]

InitStats ==
  /\ config = <<>>
  /\ prev = <<>>
  /\ last = NoOp
  /\ nops = 0
  /\ \E t \in Trees : tree = [h \in Hashes |-> [t[h] EXCEPT !.bits = cellBits(h)]]
  /\ visited \in {<<>>} \cup {<<h>> : h \in Hashes}
  /\ stack = <<>>
  /\ ret = NoStats

\* the caller's call collectCellStats(root, visited, skipRoot)
Start ==
  /\ last = NoOp
  /\ \E root \in Hashes, skipRoot \in BOOLEAN :
       LET arg == [cell |-> root, skipRoot |-> skipRoot, visited |-> visited] IN
       IF includes(visited, root)
       THEN /\ ret' = StorageStats(0, 0)
            /\ last' = Finished(arg)
            /\ UNCHANGED <<visited, stack>>
       ELSE /\ visited' = Append(visited, root)
            /\ stack' = <<enter(root, skipRoot)>>
            /\ last' = Running(arg)
            /\ ret' = ret
  /\ UNCHANGED <<config, prev, nops, tree>>

\* one iteration of the loop over cell.refs: the recursive call on the next
\* ref either returns empty stats at once (already visited) or records the
\* hash and runs with skipRoot at its default, false
Visit ==
  /\ stack # <<>>
  /\ Top.i <= Len(tree[Top.cell].refs)
  /\ LET ref == tree[Top.cell].refs[Top.i] IN
       IF includes(visited, ref)
       THEN /\ stack' = Append(Pop, accumulate(Top, StorageStats(0, 0)))
            /\ visited' = visited
       ELSE /\ visited' = Append(visited, ref)
            /\ stack' = Append(stack, enter(ref, FALSE))
  /\ UNCHANGED <<config, prev, last, nops, tree, ret>>

\* the loop is over: return new StorageStats(bits, cells) to the caller
Return ==
  /\ stack # <<>>
  /\ Top.i > Len(tree[Top.cell].refs)
  /\ LET r == StorageStats(Top.bits, Top.cells) IN
       IF Len(stack) = 1
       THEN /\ stack' = <<>>
            /\ ret' = r
            /\ last' = Finished(last.arg)
       ELSE /\ stack' = Append(SubSeq(stack, 1, Len(stack) - 2), accumulate(stack[Len(stack) - 1], r))
            /\ UNCHANGED <<ret, last>>
  /\ UNCHANGED <<config, prev, nops, tree, visited>>

NextStats ==
  \/ Start
  \/ Visit
  \/ Return

SpecStats == InitStats /\ [][NextStats]_vars

(* ---------------------- claims on collectCellStats -------------------- *)

RECURSIVE Reach(_)
\* the cells reachable from cell h through child references
Reach(h) == {h} \cup UNION {Reach(tree[h].refs[i]) : i \in 1..Len(tree[h].refs)}

RECURSIVE SumBits(_)
\* total payload bits of a set of cells
SumBits(S) == IF S = {} THEN 0 ELSE LET h == CHOOSE x \in S : TRUE IN cellBits(h) + SumBits(S \ {h})

\* C7: a finished collectCellStats started with an empty visited list counts
\* every distinct reachable cell exactly once, whatever the order and
\* multiplicity of the child references (the root's own cell and bits are
\* left out when skipRoot is set), and visited then holds exactly the hashes
\* of the cells reachable from the root, each once.
C7_CountedOnce ==
  (last.op = "collectCellStats" /\ last.out = "done" /\ last.arg.visited = <<>>) =>
    LET R == Reach(last.arg.cell)
        skipped == IF last.arg.skipRoot THEN {last.arg.cell} ELSE {}
    IN /\ ret.cells = Cardinality(R \ skipped)
       /\ ret.bits = SumBits(R \ skipped)
       /\ {visited[i] : i \in 1..Len(visited)} = R
       /\ \A i, j \in 1..Len(visited) : visited[i] = visited[j] => i = j

\* C7 witness: a finished walk of a tree in which one cell is referenced from
\* two different cells, counted with the root
C7_Witness ==
  /\ last.op = "collectCellStats" /\ last.out = "done" /\ last.arg.visited = <<>>
  /\ ~last.arg.skipRoot
  /\ last.arg.cell = 1
  /\ \E a, b \in Hashes : a # b /\ includes(tree[a].refs, MaxCells) /\ includes(tree[b].refs, MaxCells)
  /\ ret.cells = MaxCells

(* ------------------------ frame of setGasPrice ------------------------ *)

\* C11: a successful setGasPrice(blob, p, w) rewrites only the first 208 bits
\* of the record at key 21 + w (tag 0xd1, two 64-bit fields, tag 0xde, one
\* 64-bit field): the bits that followed them in the original record follow
\* the new fields unchanged and in the same order, the blob has the same keys,
\* and the value at every other key, the other workchain's gas record
\* included, is the one the given blob had (the given blob is prev, which the
\* operation only reads).
C11_GasFrame ==
  (last.op = "setGasPrice" /\ last.ok) =>
    LET idx == KeyGas + last.w
        old == RecordBits(prev, idx)
        new == RecordBits(config, idx)
    IN /\ Len(new) = Len(old)
       /\ ByteAt(new, 0) = TagFlatGas
       /\ BitsToNat(SubSeq(new, W8 + 1, W8 + W64)) = last.arg.flat_gas_limit
       /\ BitsToNat(SubSeq(new, W8 + W64 + 1, W8 + W64 + W64)) = last.arg.flat_gas_price
       /\ ByteAt(new, W8 + W64 + W64) = TagGas
       /\ BitsToNat(SubSeq(new, W8 + W64 + W64 + W8 + 1, GasRecordBits)) = last.arg.gas_price
       /\ \A i \in (GasRecordBits + 1)..Len(old) : new[i] = old[i]
       /\ config[idx].dict = prev[idx].dict
       /\ DOMAIN config = DOMAIN prev
       /\ \A k \in DOMAIN prev \ {idx} : config[k] = prev[k]

\* C11 witness: new prices written over a record with a non-empty tail, in a
\* blob that also holds the other workchain's gas record
C11_Witness ==
  /\ last.op = "setGasPrice" /\ last.ok /\ last.w = 0
  /\ Len(RecordBits(prev, KeyGas)) > GasRecordBits
  /\ Has(prev, KeyGas - 1) /\ Has(prev, KeyStorage) /\ Has(prev, KeyMsg)
  /\ RecordBits(config, KeyGas) # RecordBits(prev, KeyGas)

(* ------------------ per-node accounting of collectCellStats ----------- *)

\* the hashes held by a visited list
Seen(v) == {v[i] : i \in 1..Len(v)}

RECURSIVE NodeStats(_, _, _), RefStats(_, _, _)
\* the per-node rule: a cell whose hash is in v gives nothing, leaves v alone
\* and its children are not looked at; any other cell has its hash recorded
\* and gives its own contribution plus the results of its child references,
\* taken in order, each seeing the hashes recorded before it
NodeStats(h, v, own) ==
  IF h \in Seen(v) THEN [bits |-> 0, cells |-> 0, visited |-> v]
  ELSE RefStats(tree[h].refs, 1, [bits |-> own.bits, cells |-> own.cells, visited |-> Append(v, h)])

\* the results of refs[i..], added to acc; a child is never the root of the
\* call, so it gives 1 cell and its own bit length
RefStats(refs, i, acc) ==
  IF i > Len(refs) THEN acc
  ELSE LET r == NodeStats(refs[i], acc.visited, [bits |-> cellBits(refs[i]), cells |-> 1])
       IN RefStats(refs, i + 1,
                   [bits |-> acc.bits + r.bits, cells |-> acc.cells + r.cells, visited |-> r.visited])

\* C12 (as claimed): a finished collectCellStats(root, visited, skipRoot)
\* returns the per-node rule's totals in which the root, when not yet
\* visited, gives 1 cell and its own bit length, or 1 cell and 0 bits when
\* skipRoot is set.
C12_PerNodeAsClaimed ==
  (last.op = "collectCellStats" /\ last.out = "done") =>
    LET root == last.arg.cell
        own == [bits |-> IF last.arg.skipRoot THEN 0 ELSE cellBits(root), cells |-> 1]
        want == NodeStats(root, last.arg.visited, own)
    IN ret = StorageStats(want.bits, want.cells) /\ visited = want.visited

\* C12 (amended): a finished collectCellStats(root, visited, skipRoot) returns
\* the per-node rule's totals in which the root, when not yet visited, gives
\* 1 cell and its own bit length, or 0 cells and 0 bits when skipRoot is set;
\* skipRoot reaches no descendant; visited ends as the given list followed by
\* the newly recorded hashes in the order they were met.
C12_PerNode ==
  (last.op = "collectCellStats" /\ last.out = "done") =>
    LET root == last.arg.cell
        own == IF last.arg.skipRoot THEN [bits |-> 0, cells |-> 0]
               ELSE [bits |-> cellBits(root), cells |-> 1]
        want == NodeStats(root, last.arg.visited, own)
    IN ret = StorageStats(want.bits, want.cells) /\ visited = want.visited

\* C12 witness: a finished call with skipRoot set whose root has a child that
\* was visited beforehand and a child that was not
C12_Witness ==
  /\ last.op = "collectCellStats" /\ last.out = "done"
  /\ last.arg.skipRoot
  /\ last.arg.visited # <<>>
  /\ ~includes(last.arg.visited, last.arg.cell)
  /\ \E i, j \in 1..Len(tree[last.arg.cell].refs) :
       /\ includes(last.arg.visited, tree[last.arg.cell].refs[i])
       /\ ~includes(last.arg.visited, tree[last.arg.cell].refs[j])
  /\ ret.cells > 0

====
